---- MODULE Spec2Model ----
(***************************************************************************)
(* A model of the CueConnect mobile client: the table list kept by         *)
(* VenueDetailScreen, the request handlers of the screens, and App's       *)
(* Firebase auth-state processing.                                         *)
(***************************************************************************)
EXTENDS Integers, Sequences, FiniteSets, TLC

VARIABLES
    tables,       \* VenueDetailScreen: useState<Table[]>
    sockEv,       \* the socket event handled last (history)
    prevTables,   \* the prevTables argument of the last setTables(prevTables => ...) (history)
    fbUser,       \* auth().currentUser: the uid signed in to Firebase, or None
    userAuthUid,  \* VenueDetailScreen: useState userAuthUid
    currentUserUid, \* PayForTableScreen: useState currentUserUid
    homeUser,     \* HomeScreen: the user prop (uid, isAdmin)
    location,     \* HomeScreen: whether a location is known
    claimedWinDetails,   \* VenueDetailScreen: useState claimedWinDetails
    winClaimModalVisible, \* VenueDetailScreen: useState winClaimModalVisible
    dialog,       \* the Alert with buttons that is open, or None
    pendingNotification, \* App: useState pendingNotification
    last,         \* what the handler that ran last did (history)
    initializing, \* App: useState initializing
    user,         \* App: useState user (the uid of the user object, or None)
    isAuthProcessing, \* App: the isAuthProcessing ref
    subscribed,   \* App: the auth listener effect has run
    subInit,      \* the initializing value the subscribed onAuthStateChanged closed over
    runs,         \* the onAuthStateChanged calls that are suspended at an await
    lastEv,       \* the last call of the auth listener (history)
    authLast,     \* the last backend request of an onAuthStateChanged run (history)
    failedSince,  \* the requests that failed since the last auth change (history)
    lastStep,     \* what the last resumption of an onAuthStateChanged run did (history)
    socketRef,    \* App: socketRef.current (NoSock for null)
    appSockets,   \* the sockets App created and has not disconnected
    sockUid,      \* the user uid the socket effect of App last ran for
    hasCleanup,   \* the last run of the socket effect returned a cleanup function
    lastSock,     \* what the last run of the socket effect did (history)
    mounted,      \* VenueDetailScreen is mounted
    isFocused,    \* VenueDetailScreen: useIsFocused()
    vSocketRef,   \* VenueDetailScreen: socketRef.current (an id, 0 for null)
    vSockets,     \* the venue sockets, by id
    handlers,     \* the connect handlers that await syncUserToBackend
    depTick,      \* identity of venueId and of the callbacks the effect depends on
    effDeps,      \* the dependencies the venue socket effect last ran for
    lastEff,      \* what the last run of the venue socket effect did (history)
    lastEmits     \* the events the last socket handler emitted (history)

tblVars == <<tables, sockEv, prevTables>>
screenVars == <<userAuthUid, currentUserUid, homeUser, location, claimedWinDetails,
                winClaimModalVisible, dialog, pendingNotification, last>>
opsVars == <<fbUser, screenVars>>
appSockVars == <<socketRef, appSockets, sockUid, hasCleanup, lastSock>>
authVars == <<initializing, user, isAuthProcessing, subscribed, subInit, runs, lastEv,
              authLast, failedSince, lastStep, appSockVars>>
venueVars == <<mounted, isFocused, vSocketRef, vSockets, handlers, depTick, effDeps, lastEff,
               lastEmits>>
vars == <<tblVars, opsVars, authVars, venueVars>>

None == "none"

\* ---------------------------------------------------------------- bounds
MaxTables == 2
MaxTokens == 2
MaxAwaiting == 2     \* connect handlers that await syncUserToBackend at a time

\* ------------------------------------------------------ the Table objects
TableIds == {"t1", "t2", "t3"}
Statuses == {"available", "in_play"}

\* A Table as the server sends it (the fields the handlers read).
TableSet ==
    [_id : TableIds, status : Statuses, player1Id : {None, "u1", "u2"},
     player2Id : {None, "u1"}, queue : {<<>>, <<"u1">>, <<"u2">>}]

\* The tables the socket events of the table-list model carry.
SockTables ==
    {t \in TableSet : t.player1Id = None /\ t.player2Id = None /\ t.queue = <<>>}

\* Lists of at most n tables.
RECURSIVE TableLists(_)
TableLists(n) ==
    IF n = 0 THEN {<<>>}
    ELSE TableLists(n - 1) \cup
         {Append(l, t) : l \in {x \in TableLists(n - 1) : Len(x) = n - 1},
                         t \in SockTables}

\* A buggy variant of the map below: it appends the table when no entry
\* carries its _id.
MapReplaceUpsert(prev, updatedTable) ==
    IF \E i \in 1..Len(prev) : prev[i]._id = updatedTable._id
    THEN [i \in 1..Len(prev) |->
            IF prev[i]._id = updatedTable._id THEN updatedTable ELSE prev[i]]
    ELSE Append(prev, updatedTable)

\* prevTables.map(table => table._id === updatedTable._id ? updatedTable : table)
RECURSIVE MapReplace(_, _)
MapReplace(prev, updatedTable) ==
    IF prev = <<>> THEN <<>>
    ELSE <<IF Head(prev)._id = updatedTable._id THEN updatedTable ELSE Head(prev)>>
         \o MapReplace(Tail(prev), updatedTable)

\* socket.on('initialVenueState', data => setTables(data))
InitialVenueState(data) ==
    /\ tables' = data
    /\ prevTables' = <<>>
    /\ sockEv' = [name |-> "initialVenueState", table |-> None]

\* socket.on('queueUpdate', updatedTable => setTables(prev => prev.map(...)))
QueueUpdate(updatedTable) ==
    /\ tables' = MapReplace(tables, updatedTable)
    /\ prevTables' = tables
    /\ sockEv' = [name |-> "queueUpdate", table |-> updatedTable]

\* socket.on('tableStatusUpdate', updatedTable => setTables(prev => prev.map(...)))
TableStatusUpdate(updatedTable) ==
    /\ tables' = MapReplace(tables, updatedTable)
    /\ prevTables' = tables
    /\ sockEv' = [name |-> "tableStatusUpdate", table |-> updatedTable]

TblInit ==
    /\ tables = <<>>
    /\ prevTables = <<>>
    /\ sockEv = [name |-> None, table |-> None]

NoUser == [uid |-> None, isAdmin |-> FALSE]
NoDialog == [kind |-> None, tableId |-> None, uid |-> None]
NoDetails == [tableId |-> None]
NoLast == [op |-> None, reqs |-> <<>>, alerts |-> <<>>, escaped |-> FALSE,
           fbSignOut |-> FALSE,
           args |-> [uid |-> None, cur |-> None, out |-> None, cost |-> None,
                     balance |-> None]]

NoEv == [user |-> None, cause |-> None, tick |-> 0, skipped |-> FALSE]
NoAuthLast == [op |-> None, cause |-> None, repeat |-> FALSE, tick |-> 0]
NoRun == [pc |-> None, live |-> None, closInit |-> FALSE, cause |-> None,
          syncOk |-> FALSE, profileDone |-> FALSE, userSet |-> FALSE]
NoSock == [owner |-> None, registered |-> FALSE]
NoStep == [op |-> None, eff |-> None, alerts |-> <<>>, setUser |-> FALSE,
           ended |-> FALSE, run |-> NoRun]

\* App before its first effect has run.
AuthInit ==
    /\ initializing = TRUE
    /\ user = None
    /\ isAuthProcessing = FALSE
    /\ subscribed = FALSE
    /\ subInit = TRUE
    /\ runs = <<>>
    /\ lastEv = NoEv
    /\ authLast = NoAuthLast
    /\ failedSince = {}
    /\ lastStep = NoStep
    /\ socketRef = NoSock
    /\ appSockets = <<>>
    /\ sockUid = "unset"
    /\ hasCleanup = FALSE
    /\ lastSock = [trace |-> <<>>, prev |-> NoSock, uid |-> None]

ScreenInit ==
    /\ userAuthUid = None
    /\ currentUserUid = None
    /\ homeUser = NoUser
    /\ location = FALSE
    /\ claimedWinDetails = NoDetails
    /\ winClaimModalVisible = FALSE
    /\ dialog = NoDialog
    /\ pendingNotification = None
    /\ last = NoLast

OpsInit == fbUser = None /\ ScreenInit

\* ids of venue sockets: the one socketRef holds and the disconnected ones a
\* connect handler still holds
SockIds == 1..(MaxAwaiting + 1)
FreeSock == [state |-> "free", owner |-> None, everConnected |-> FALSE,
             synced |-> FALSE, registered |-> FALSE]
NoDeps == [uid |-> "unset", focused |-> FALSE, tick |-> 0]

VenueInit ==
    /\ mounted = TRUE
    /\ isFocused = TRUE
    /\ vSocketRef = 0
    /\ vSockets = [i \in SockIds |-> FreeSock]
    /\ handlers = <<>>
    /\ depTick = 0
    /\ effDeps = NoDeps
    /\ lastEff = [trace |-> <<>>, prev |-> 0, cause |-> "none"]
    /\ lastEmits = <<>>

TablesInit == TblInit /\ OpsInit /\ AuthInit /\ VenueInit

TablesNext ==
    \/ \E data \in TableLists(MaxTables) : InitialVenueState(data) /\ UNCHANGED <<opsVars, authVars, venueVars>>
    \/ \E t \in SockTables : QueueUpdate(t) /\ UNCHANGED <<opsVars, authVars, venueVars>>
    \/ \E t \in SockTables : TableStatusUpdate(t) /\ UNCHANGED <<opsVars, authVars, venueVars>>

SpecTables == TablesInit /\ [][TablesNext]_vars

\* ------------------------------------------------------------------ C1
IsTableUpdate == sockEv.name \in {"queueUpdate", "tableStatusUpdate"}

\* C1: handling queueUpdate or tableStatusUpdate carrying table T leaves the
\* list length and order alone, puts T itself (the whole object) at every
\* position whose entry has T's _id, keeps every other entry, and leaves the
\* list unchanged (T is not appended) when no entry has that _id.
C1_ReplaceById ==
    IsTableUpdate =>
        /\ Len(tables) = Len(prevTables)
        /\ \A i \in 1..Len(prevTables) :
              tables[i] = IF prevTables[i]._id = sockEv.table._id
                          THEN sockEv.table ELSE prevTables[i]
        /\ ((\A i \in 1..Len(prevTables) : prevTables[i]._id # sockEv.table._id)
               => tables = prevTables)

\* An update replaced an entry whose fields all differ from the table sent,
\* next to an entry it kept.
C1_Witness ==
    /\ IsTableUpdate
    /\ Len(prevTables) = 2
    /\ prevTables[1]._id = sockEv.table._id
    /\ prevTables[1].status # sockEv.table.status
    /\ prevTables[2]._id # sockEv.table._id
    /\ tables[1] = sockEv.table
    /\ tables[2] = prevTables[2]

\* ---------------------------------------------------- request handlers
\* What the awaited calls of a handler can answer.
\* getIdToken(true) followed by fetch: the token is refused, or the request
\* is sent and answered 2xx, answered non-2xx, or fails on the network.
Outcomes == {"ok", "token_reject", "http_error", "network_error"}
RespOutcomes == {"ok", "http_error", "network_error"}
CallOutcomes == {"ok", "reject"}

\* perGameCost as JavaScript sees it: a number, NaN, or no number at all.
Num(n) == [isNumber |-> TRUE, isNaN |-> FALSE, val |-> n]
NaNCost == [isNumber |-> TRUE, isNaN |-> TRUE, val |-> 0]
Undefined == [isNumber |-> FALSE, isNaN |-> TRUE, val |-> 0]
CostSet == {Undefined, NaNCost} \cup {Num(n) : n \in (-1)..MaxTokens}

Args(uid, out, cost, balance) ==
    [uid |-> uid, cur |-> fbUser, out |-> out, cost |-> cost, balance |-> balance]

Req(route, bearer) == [route |-> route, bearer |-> bearer]

ErrorOf(out) ==
    CASE out = "ok" -> None
      [] out = "http_error" -> "HTTP Error"
      [] OTHER -> "Network request failed"

\* A buggy variant of sendAuthenticatedRequest: it sends the request twice.
SendTwice(uid, out, route) ==
    IF uid = None \/ fbUser = None \/ out = "token_reject"
    THEN [reqs |-> <<>>, error |-> "not sent"]
    ELSE [reqs |-> <<Req(route, fbUser), Req(route, fbUser)>>, error |-> ErrorOf(out)]

\* sendAuthenticatedRequest of VenueDetailScreen and PayForTableScreen: what
\* it sends and the error it throws (None when it returns).
SendAuthenticatedRequest(uid, out, route) ==
    IF uid = None
    THEN [reqs |-> <<>>, error |-> "User not authenticated."]
    ELSE IF fbUser = None
    THEN [reqs |-> <<>>, error |-> "Failed to get authentication token."]
    ELSE IF out = "token_reject"
    THEN [reqs |-> <<>>, error |-> "getIdToken rejected"]
    ELSE [reqs |-> <<Req(route, fbUser)>>, error |-> ErrorOf(out)]

\* A handler without its try/catch: the error leaves the handler.
Uncaught(op, r, title, args) ==
    [op |-> op, reqs |-> r.reqs, alerts |-> <<>>, escaped |-> r.error # None,
     fbSignOut |-> FALSE, args |-> args]

\* try { await ... } catch (error) { console.error(...); Alert.alert(title, ...) }
Caught(op, r, title, args) ==
    [op |-> op, reqs |-> r.reqs,
     alerts |-> IF r.error # None THEN <<title>> ELSE <<>>,
     escaped |-> FALSE, fbSignOut |-> FALSE, args |-> args]

\* try { await ... } catch (error) { console.error(...) }
Logged(op, r, args) ==
    [op |-> op, reqs |-> r.reqs, alerts |-> <<>>, escaped |-> FALSE,
     fbSignOut |-> FALSE, args |-> args]

\* A handler that returns early or only shows alerts.
Shown(op, alerts, args) ==
    [op |-> op, reqs |-> <<>>, alerts |-> alerts, escaped |-> FALSE,
     fbSignOut |-> FALSE, args |-> args]

vdVars == <<userAuthUid, claimedWinDetails, winClaimModalVisible>>
homeVars == <<homeUser, location, pendingNotification>>

\* renderTableItem: what the primary button of a table does.
NumPlayers(t) ==
    (IF t.player1Id # None THEN 1 ELSE 0) + (IF t.player2Id # None THEN 1 ELSE 0)
IsCurrentUserPlaying(t) == t.player1Id = userAuthUid \/ t.player2Id = userAuthUid
IsCurrentUserInQueue(t) == \E i \in 1..Len(t.queue) : t.queue[i] = userAuthUid
CanJoinTableDirectly(t) ==
    \/ NumPlayers(t) = 0 /\ t.status = "available"
    \/ NumPlayers(t) = 1 /\ t.status \in {"available", "in_play"}

HandleJoinTable(t, out) ==
    /\ last' = Caught("joinTable",
                      SendAuthenticatedRequest(userAuthUid, out,
                                               <<"tables", t._id, "join-table">>),
                      "Error", Args(userAuthUid, out, None, None))
    /\ UNCHANGED dialog

HandleJoinQueue(t, out) ==
    /\ last' = Caught("joinQueue",
                      SendAuthenticatedRequest(userAuthUid, out,
                                               <<"tables", t._id, "join-queue">>),
                      "Error", Args(userAuthUid, out, None, None))
    /\ UNCHANGED dialog

HandleLeaveQueue(t, out) ==
    /\ last' = Caught("leaveQueue",
                      SendAuthenticatedRequest(userAuthUid, out,
                                               <<"tables", t._id, "leave-queue">>),
                      "Error", Args(userAuthUid, out, None, None))
    /\ UNCHANGED dialog

\* handleClaimWin up to the confirmation dialog it opens.
HandleClaimWin(t) ==
    IF userAuthUid = None
    THEN /\ last' = Shown("claimWin", <<>>, Args(userAuthUid, None, None, None))
         /\ UNCHANGED dialog
    ELSE IF ~(t.player1Id = userAuthUid \/ t.player2Id = userAuthUid)
    THEN /\ last' = Shown("claimWin", <<"Error">>, Args(userAuthUid, None, None, None))
         /\ UNCHANGED dialog
    ELSE /\ last' = Shown("claimWin", <<"Claim Victory">>,
                          Args(userAuthUid, None, None, None))
         /\ dialog' = [kind |-> "claimWin", tableId |-> t._id, uid |-> userAuthUid]

\* The user taps the primary button of table t.
PressPrimaryButton(t, out) ==
    /\ dialog = NoDialog
    /\ ~winClaimModalVisible
    /\ IF IsCurrentUserPlaying(t) THEN HandleClaimWin(t)
       ELSE IF t.queue = <<>>
       THEN IF CanJoinTableDirectly(t) THEN HandleJoinTable(t, out)
            ELSE /\ last' = Shown("notAvailable", <<"Info">>,
                                  Args(userAuthUid, None, None, None))
                 /\ UNCHANGED dialog
       ELSE IF IsCurrentUserInQueue(t) THEN HandleLeaveQueue(t, out)
       ELSE HandleJoinQueue(t, out)
    /\ UNCHANGED <<tblVars, authVars, venueVars, fbUser, vdVars, currentUserUid, homeVars>>

\* The user answers the "Claim Victory" dialog.
ClaimWinDialogPress(choice, out) ==
    /\ dialog # NoDialog
    /\ dialog.kind = "claimWin"
    /\ dialog' = NoDialog
    /\ last' = IF choice = "Cancel"
               THEN Shown("claimWinCancel", <<>>, Args(dialog.uid, None, None, None))
               ELSE Caught("claimWinConfirmed",
                           SendAuthenticatedRequest(dialog.uid, out,
                               <<"tables", dialog.tableId, "claim-win">>),
                           "Error", Args(dialog.uid, out, None, None))
    /\ UNCHANGED <<tblVars, authVars, venueVars, fbUser, vdVars, currentUserUid, homeVars>>

\* socket.on('winClaimedNotification', data => ...)
WinClaimedNotification(data) ==
    /\ claimedWinDetails' = data
    /\ winClaimModalVisible' = TRUE
    /\ last' = Shown("winClaimedNotification", <<>>, Args(userAuthUid, None, None, None))
    /\ UNCHANGED <<tblVars, authVars, venueVars, fbUser, userAuthUid, currentUserUid, homeVars, dialog>>

\* handleConfirmWin: the Confirm button of the win-claim modal.
HandleConfirmWin(out) ==
    /\ winClaimModalVisible
    /\ LET r == SendAuthenticatedRequest(userAuthUid, out,
                    <<"tables", claimedWinDetails.tableId, "confirm-win">>)
       IN IF claimedWinDetails = NoDetails \/ userAuthUid = None
          THEN /\ last' = Shown("confirmWin", <<>>, Args(userAuthUid, out, None, None))
               /\ UNCHANGED <<claimedWinDetails, winClaimModalVisible>>
          ELSE /\ last' = Caught("confirmWin", r, "Error",
                                 Args(userAuthUid, out, None, None))
               /\ winClaimModalVisible' = (r.error # None)
               /\ claimedWinDetails' = IF r.error = None THEN NoDetails ELSE claimedWinDetails
    /\ UNCHANGED <<tblVars, authVars, venueVars, fbUser, userAuthUid, currentUserUid, homeVars, dialog>>

\* handleDeclineWin: the Dispute button of the win-claim modal.
HandleDeclineWin ==
    /\ winClaimModalVisible
    /\ last' = Shown("declineWin", <<"Win Disputed">>, Args(userAuthUid, None, None, None))
    /\ winClaimModalVisible' = FALSE
    /\ claimedWinDetails' = NoDetails
    /\ UNCHANGED <<tblVars, authVars, venueVars, fbUser, userAuthUid, currentUserUid, homeVars, dialog>>

\* syncUserToBackend, awaited by the socket's connect handler.
SyncUserToBackendResult(out) ==
    IF userAuthUid = None THEN [reqs |-> <<>>, error |-> None]
    ELSE IF fbUser = None THEN [reqs |-> <<>>, error |-> None]
    ELSE IF out = "token_reject" THEN [reqs |-> <<>>, error |-> "getIdToken rejected"]
    ELSE [reqs |-> <<Req(<<"user", "sync">>, fbUser)>>, error |-> ErrorOf(out)]

SyncUserToBackend(out) ==
    /\ userAuthUid # None
    /\ last' = Logged("syncUserToBackend", SyncUserToBackendResult(out),
                      Args(userAuthUid, out, None, None))
    /\ UNCHANGED <<tblVars, authVars, venueVars, fbUser, vdVars, currentUserUid, homeVars, dialog>>

\* The tables-detailed answers of the request-handler model: one table that
\* the signed-in user u1 plays on, can join, cannot join, queues for, or may
\* queue for.
OpsTables ==
    {t \in TableSet :
        /\ t._id = "t1"
        /\ t.player2Id = None
        /\ \/ t.player1Id = "u1" /\ t.queue = <<>> /\ t.status = "in_play"
           \/ t.player1Id = None /\ t.queue = <<>>
           \/ t.player1Id = "u2" /\ t.queue # <<>> /\ t.status = "in_play"}

\* fetchTablesForVenue: the error is shown inline (setErrorMsg), not alerted.
FetchTablesForVenue(out, data) ==
    /\ userAuthUid # None
    /\ dialog = NoDialog
    /\ LET r == SendAuthenticatedRequest(userAuthUid, out,
                    <<"GET", "venues", "v1", "tables-detailed">>)
       IN /\ last' = Logged("fetchTablesForVenue", r,
                            Args(userAuthUid, out, None, None))
          /\ tables' = IF r.error = None THEN <<data>> ELSE <<>>
    /\ UNCHANGED <<sockEv, prevTables, authVars, venueVars, fbUser, vdVars, currentUserUid, homeVars, dialog>>

\* ------------------------------------------------- PayForTableScreen
CostValid(cost) == cost.isNumber /\ ~cost.isNaN /\ cost.val > 0

\* A buggy variant of the comparison below: the balance is never too low.
LtNever(balance, cost) == FALSE

\* currentUserTokenBalance < perGameCost (false against NaN and undefined)
Lt(balance, cost) == cost.isNumber /\ ~cost.isNaN /\ balance < cost.val

\* The disabled prop of the pay button.
PayDisabled(cost, balance) ==
    currentUserUid = None \/ Lt(balance, cost) \/ ~CostValid(cost)

HandlePayWithTokens(cost, balance, out) ==
    LET args == Args(currentUserUid, out, cost, balance)
        r == SendAuthenticatedRequest(currentUserUid, out,
                 <<"tables", "t1", "pay-with-tokens">>)
    IN IF currentUserUid = None
       THEN Shown("payWithTokens", <<"Authentication Required">>, args)
       ELSE IF ~CostValid(cost) THEN Shown("payWithTokens", <<"Error">>, args)
       ELSE IF Lt(balance, cost)
       THEN Shown("payWithTokens", <<"Insufficient Tokens">>, args)
       ELSE IF r.error = None
       THEN [Caught("payWithTokens", r, "Payment Failed", args)
                EXCEPT !.alerts = <<"Success">>]
       ELSE Caught("payWithTokens", r, "Payment Failed", args)

\* The user taps the pay button of PayForTableScreen, opened for a table of
\* the given cost with the given balance.
PressPayButton(cost, balance, out) ==
    /\ dialog = NoDialog
    /\ last' = IF PayDisabled(cost, balance)
               THEN Shown("payDisabled", <<>>, Args(currentUserUid, out, cost, balance))
               ELSE HandlePayWithTokens(cost, balance, out)
    /\ UNCHANGED <<tblVars, authVars, venueVars, fbUser, vdVars, currentUserUid, homeVars, dialog>>

\* -------------------------------------------------------- HomeScreen
\* user.getIdToken(true) followed by fetch with the Bearer header; the token
\* of a user object that is no longer signed in is refused.
HomeFetch(uid, out, route) ==
    IF fbUser # uid \/ out = "token_reject"
    THEN [reqs |-> <<>>, error |-> "getIdToken rejected"]
    ELSE [reqs |-> <<Req(route, uid)>>, error |-> ErrorOf(out)]

\* App: setPendingNotification(remoteMessage), and the effect of HomeScreen
\* that shows it.
NotificationOpened(type) ==
    /\ homeUser.uid # None
    /\ dialog = NoDialog
    /\ pendingNotification' = type
    /\ IF type = "win_confirmation"
       THEN /\ dialog' = [kind |-> "winConfirmation", tableId |-> "t1",
                          uid |-> homeUser.uid]
            /\ last' = Shown("notification", <<"Win Claimed!">>,
                             Args(homeUser.uid, None, None, None))
       ELSE /\ dialog' = NoDialog
            /\ last' = Shown("notification", <<"New Notification">>,
                             Args(homeUser.uid, None, None, None))
    /\ UNCHANGED <<tblVars, authVars, venueVars, fbUser, vdVars, currentUserUid, homeUser, location>>

\* handleDisputeWin and handleConfirmWin of HomeScreen, for the user the
\* alert's callbacks closed over.
HomeWinAnswer(op, uid, path, out) ==
    LET r == HomeFetch(uid, out, <<"tables", dialog.tableId, path>>)
        args == Args(uid, out, None, None)
    IN IF uid = None THEN Shown(op, <<"Authentication Error">>, args)
       ELSE IF r.error = None
       THEN [Caught(op, r, "Error", args) EXCEPT !.alerts = <<"Success">>]
       ELSE Caught(op, r, "Error", args)

\* The user answers the "Win Claimed!" alert.
HomeAlertPress(choice, out) ==
    /\ dialog # NoDialog
    /\ dialog.kind = "winConfirmation"
    /\ dialog' = NoDialog
    /\ last' = IF choice = "Dispute"
               THEN HomeWinAnswer("disputeWin", dialog.uid, "dispute-win", out)
               ELSE HomeWinAnswer("homeConfirmWin", dialog.uid, "confirm-win", out)
    /\ pendingNotification' = IF dialog.uid = None THEN pendingNotification ELSE None
    /\ UNCHANGED <<tblVars, authVars, venueVars, fbUser, vdVars, currentUserUid, homeUser, location>>

\* fetchAllVenuesForAdmin and fetchNearbyVenues: what they send and alert.
FetchAllVenuesForAdmin(out) ==
    IF ~homeUser.isAdmin \/ homeUser.uid = None
    THEN [reqs |-> <<>>, alerts |-> <<>>]
    ELSE LET r == HomeFetch(homeUser.uid, out, <<"GET", "venues">>)
         IN [reqs |-> r.reqs, alerts |-> IF r.error # None THEN <<"Error">> ELSE <<>>]

FetchNearbyVenues(out) ==
    IF ~location \/ homeUser.uid = None
    THEN [reqs |-> <<>>, alerts |-> <<>>]
    ELSE LET r == HomeFetch(homeUser.uid, out, <<"GET", "venues", "nearby">>)
         IN [reqs |-> r.reqs, alerts |-> IF r.error # None THEN <<"Error">> ELSE <<>>]

\* parseInt(s, 10) on the texts of the form: the leading digits, or NaN.
ParseInt(s) ==
    CASE s = "4" -> Num(4)
      [] s = "4x" -> Num(4)
      [] OTHER -> NaNCost

\* The registration form: the venue name and the table count as typed.
Forms == [name : {"", "Bar"}, tablesCount : {"", "x", "4", "4x"}]

FormValid(form) ==
    ~(form.name = "" \/ form.tablesCount = "" \/ ParseInt(form.tablesCount).isNaN)

HandleRegisterVenue(form, out, outAll, outNear) ==
    LET args == Args(homeUser.uid, out, form, None)
        r == HomeFetch(homeUser.uid, out, <<"POST", "venues">>)
        a == FetchAllVenuesForAdmin(outAll)
        n == FetchNearbyVenues(outNear)
    IN IF homeUser.uid = None
       THEN Shown("registerVenue", <<"Authentication Error">>, args)
       ELSE IF ~FormValid(form)
       THEN Shown("registerVenue", <<"Missing Information">>, args)
       ELSE IF r.error # None
       THEN Caught("registerVenue", r, "Registration Failed", args)
       ELSE [Caught("registerVenue", r, "Registration Failed", args)
                EXCEPT !.reqs = r.reqs \o a.reqs \o n.reqs,
                       !.alerts = <<"Success">> \o a.alerts \o n.alerts]

\* The admin taps "Register Venue" (the panel is rendered for admins only).
PressRegisterVenue(form, out, outAll, outNear) ==
    /\ homeUser.isAdmin
    /\ dialog = NoDialog
    /\ last' = HandleRegisterVenue(form, out, outAll, outNear)
    /\ UNCHANGED <<tblVars, authVars, venueVars, fbUser, vdVars, currentUserUid, homeVars, dialog>>

\* --------------------------------------------------- App and AuthService
\* sendFcmTokenToBackend(uid, token, idToken): a failure is only logged.
SendFcmTokenToBackend(out) ==
    /\ fbUser # None
    /\ last' = Logged("sendFcmTokenToBackend",
                      [reqs |-> <<Req(<<"user", "update-fcm-token">>, fbUser)>>,
                       error |-> ErrorOf(out)],
                      Args(fbUser, out, None, None))
    /\ UNCHANGED <<tblVars, authVars, venueVars, fbUser, vdVars, currentUserUid, homeVars, dialog>>

\* The effect of the older HomeScreen kept in App.tsx: fetch(backendUrl) with
\* no headers; the error is shown inline (setErrorMsg).
LegacyFetchNearbyVenues(out) ==
    /\ fbUser # None
    /\ location
    /\ last' = Logged("legacyFetchNearbyVenues",
                      [reqs |-> <<Req(<<"GET", "venues", "nearby">>, None)>>,
                       error |-> ErrorOf(out)],
                      Args(fbUser, out, None, None))
    /\ UNCHANGED <<tblVars, authVars, venueVars, fbUser, vdVars, currentUserUid, homeVars, dialog>>

\* A buggy variant of App's signOut: Google's revocation comes first.
SignOutRevokeFirst(fb, revoke, google) ==
    [called |-> revoke = "ok",
     error |-> revoke = "reject" \/ fb = "reject" \/ google = "reject"]

\* App's signOut: auth().signOut(), GoogleSignin.revokeAccess(),
\* GoogleSignin.signOut() in one try block.  called: auth().signOut() ran.
AppSignOutCalls(fb, revoke, google) ==
    [called |-> TRUE,
     error |-> fb = "reject" \/ revoke = "reject" \/ google = "reject"]

\* AuthService.signOut: GoogleSignin.revokeAccess(), then auth().signOut().
AuthServiceSignOutCalls(fb, revoke) ==
    [called |-> revoke = "ok",
     error |-> revoke = "reject" \/ fb = "reject"]

SignedOut(op, c, alerts, fb, revoke) ==
    /\ last' = [op |-> op, reqs |-> <<>>, alerts |-> alerts, escaped |-> FALSE,
                fbSignOut |-> c.called,
                args |-> Args(fbUser, fb, revoke, None)]
    /\ fbUser' = IF c.called /\ fb = "ok" THEN None ELSE fbUser

\* The Sign Out button of HomeScreen.
AppSignOut(fb, revoke, google) ==
    /\ homeUser.uid # None
    /\ dialog = NoDialog
    /\ LET c == AppSignOutCalls(fb, revoke, google)
       IN SignedOut("appSignOut", c,
                    IF c.error THEN <<"Sign Out Error">> ELSE <<>>, fb, revoke)
    /\ UNCHANGED <<tblVars, authVars, venueVars, vdVars, currentUserUid, homeVars, dialog>>

\* AuthService.signOut, the signOut of the user context.
AuthServiceSignOut(fb, revoke) ==
    /\ dialog = NoDialog
    /\ SignedOut("authServiceSignOut", AuthServiceSignOutCalls(fb, revoke), <<>>,
                 fb, revoke)
    /\ UNCHANGED <<tblVars, authVars, venueVars, vdVars, currentUserUid, homeVars, dialog>>

\* ------------------------------------------------------- environment
\* auth().signInWithCredential succeeds.
SignIn ==
    /\ fbUser = None
    /\ fbUser' = "u1"
    /\ UNCHANGED <<tblVars, authVars, venueVars, vdVars, currentUserUid, homeVars, dialog, last>>

\* The onAuthStateChanged listeners of VenueDetailScreen and
\* PayForTableScreen; the former also fetches the profile, silently.
ScreenAuthStateChanged(out) ==
    /\ userAuthUid # fbUser
    /\ userAuthUid' = fbUser
    /\ currentUserUid' = fbUser
    /\ last' = IF fbUser = None
               THEN Shown("screenAuthStateChanged", <<>>, Args(None, out, None, None))
               ELSE Logged("screenAuthStateChanged",
                           HomeFetch(fbUser, out, <<"GET", "user", "profile">>),
                           Args(fbUser, out, None, None))
    /\ UNCHANGED <<tblVars, authVars, venueVars, fbUser, claimedWinDetails, winClaimModalVisible,
                   homeVars, dialog>>

\* App hands HomeScreen the user its auth processing settled on.
AppSetUser(isAdmin) ==
    /\ homeUser.uid # fbUser
    /\ homeUser' = IF fbUser = None THEN NoUser
                   ELSE [uid |-> fbUser, isAdmin |-> isAdmin]
    /\ UNCHANGED <<tblVars, authVars, venueVars, fbUser, vdVars, currentUserUid, location,
                   pendingNotification, dialog, last>>

\* requestLocationPermissionAndGetLocation: setLocation(currentLocation)
LocationObtained ==
    /\ ~location
    /\ location' = TRUE
    /\ UNCHANGED <<tblVars, authVars, venueVars, fbUser, vdVars, currentUserUid, homeUser,
                   pendingNotification, dialog, last>>

OpsNext ==
    \/ SignIn
    \/ \E out \in Outcomes : ScreenAuthStateChanged(out)
    \/ \E isAdmin \in BOOLEAN : AppSetUser(isAdmin)
    \/ LocationObtained
    \/ \E out \in Outcomes, data \in OpsTables : FetchTablesForVenue(out, data)
    \/ \E i \in 1..Len(tables), out \in Outcomes : PressPrimaryButton(tables[i], out)
    \/ \E choice \in {"Cancel", "Claim Win"}, out \in Outcomes :
          ClaimWinDialogPress(choice, out)
    \/ WinClaimedNotification([tableId |-> "t1"])
    \/ \E out \in Outcomes : HandleConfirmWin(out)
    \/ HandleDeclineWin
    \/ \E out \in Outcomes : SyncUserToBackend(out)
    \/ \E cost \in CostSet, balance \in 0..MaxTokens :
          \E out \in IF PayDisabled(cost, balance) THEN {"ok"} ELSE Outcomes :
             PressPayButton(cost, balance, out)
    \/ \E type \in {"win_confirmation", "generic"} : NotificationOpened(type)
    \/ \E choice \in {"Dispute", "Confirm"}, out \in Outcomes : HomeAlertPress(choice, out)
    \/ \E form \in Forms, out \in Outcomes :
          \E outAll, outNear \in IF FormValid(form) /\ out = "ok"
                                 THEN RespOutcomes ELSE {"ok"} :
             PressRegisterVenue(form, out, outAll, outNear)
    \/ \E out \in RespOutcomes : SendFcmTokenToBackend(out)
    \/ \E out \in RespOutcomes : LegacyFetchNearbyVenues(out)
    \/ \E fb, revoke, google \in CallOutcomes : AppSignOut(fb, revoke, google)
    \/ \E fb, revoke \in CallOutcomes : AuthServiceSignOut(fb, revoke)

SpecOps == TablesInit /\ [][OpsNext]_vars

\* ------------------------------------------------------------------ C2
IsPayPress == last.op \in {"payDisabled", "payWithTokens"}
CanSend == last.args.uid # None /\ last.args.cur # None /\ last.args.out # "token_reject"

C3_AllBearer ==
    /\ \A i \in 1..Len(last.reqs) : last.reqs[i].bearer # None
    /\ last.reqs # <<>> => last.args.cur # None

\* ------------------------------------------------------------------ C4
Failed == last.args.out \in {"http_error", "network_error"}
SilentOps == {"syncUserToBackend", "sendFcmTokenToBackend", "fetchTablesForVenue",
              "screenAuthStateChanged", "legacyFetchNearbyVenues"}
AlertingOps == {"joinTable", "joinQueue", "leaveQueue", "claimWinConfirmed",
                "confirmWin", "payWithTokens", "disputeWin", "homeConfirmWin",
                "registerVenue"}

UserOps == {"joinTable", "joinQueue", "leaveQueue", "claimWinConfirmed", "confirmWin",
            "payWithTokens", "registerVenue"}

\* The request of the operation itself was sent and answered 2xx.
OwnRequestOk == last.op \in UserOps /\ last.reqs # <<>> /\ last.args.out = "ok"

C7_DisputeSends ==
    (last.op \in {"declineWin", "disputeWin"} /\ CanSend) =>
        \E i \in 1..Len(last.reqs) : last.reqs[i].route[3] = "dispute-win"

\* ------------------------------------------------------------------ C8
\* C8 as stated: every sign-out of a signed-in user calls auth().signOut()
\* and never throws.
C8_SignOutCallsFirebase ==
    (last.op \in {"appSignOut", "authServiceSignOut"} /\ last.args.uid # None) =>
        (last.fbSignOut /\ ~last.escaped)

\* ------------------------------------------- App.onAuthStateChanged
Flip(tick) == 1 - tick

\* A buggy variant of the guard below: an event is never skipped.
SkipsNever == FALSE

\* if (isAuthProcessing.current) return;
Skips == isAuthProcessing

\* firebaseUser.getIdToken(true) and the fetch after it, for the user object
\* the run holds: the token of a user who is no longer signed in is refused.
RunOutcome(run, out) == IF fbUser # run.live THEN "token_reject" ELSE out

\* finally { if (initializing) setInitializing(false); isAuthProcessing.current = false }
Finally(closInit) ==
    /\ initializing' = IF closInit THEN FALSE ELSE initializing
    /\ isAuthProcessing' = FALSE

RemoveAt(seq, i) == SubSeq(seq, 1, i - 1) \o SubSeq(seq, i + 1, Len(seq))

\* The listener is called with ev while auth().currentUser is live: the code
\* of onAuthStateChanged up to its first await.
Invoke(ev, live, cause, closInit) ==
    /\ lastEv' = [user |-> ev, cause |-> cause, tick |-> Flip(lastEv.tick),
                  skipped |-> Skips]
    /\ failedSince' = IF cause = "change" THEN {} ELSE failedSince
    /\ UNCHANGED <<authLast, lastStep>>
    /\ IF Skips
       THEN UNCHANGED <<initializing, user, isAuthProcessing, runs>>
       ELSE IF ev # None /\ live # None
       THEN /\ isAuthProcessing' = TRUE
            /\ runs' = Append(runs, [pc |-> "sync", live |-> live,
                                     closInit |-> closInit, cause |-> cause,
                                     syncOk |-> FALSE, profileDone |-> FALSE,
                                     userSet |-> FALSE])
            /\ UNCHANGED <<initializing, user>>
       ELSE /\ user' = None
            /\ Finally(closInit)
            /\ UNCHANGED runs

\* The effect subscribes on mount; Firebase calls the new listener with the
\* current user.
Subscribe ==
    /\ ~subscribed
    /\ subscribed' = TRUE
    /\ subInit' = initializing
    /\ Invoke(fbUser, fbUser, "subscribe", initializing)
    /\ UNCHANGED <<tblVars, venueVars, opsVars, appSockVars>>

\* initializing changed, so onAuthStateChanged is a new function and the
\* effect unsubscribes and subscribes again; Firebase calls the new listener
\* with the current user.
Resubscribe ==
    /\ subscribed
    /\ subInit # initializing
    /\ subInit' = initializing
    /\ Invoke(fbUser, fbUser, "resubscribe", initializing)
    /\ UNCHANGED <<tblVars, venueVars, opsVars, appSockVars, subscribed>>

\* The user signs in or out of Firebase; Firebase calls the listener.
FirebaseAuthChange(u) ==
    /\ subscribed
    /\ fbUser # u
    /\ fbUser = None \/ u = None
    /\ fbUser' = u
    /\ Invoke(u, u, "change", subInit)
    /\ UNCHANGED <<tblVars, venueVars, screenVars, appSockVars, subscribed, subInit>>

\* A run sent the request op, which was answered as eff.
Requested(run, op, eff) ==
    /\ authLast' = IF eff = "token_reject" THEN authLast
                   ELSE [op |-> op, cause |-> run.cause,
                         repeat |-> op \in failedSince, tick |-> Flip(authLast.tick)]
    /\ failedSince' = IF eff \in {"http_error", "network_error"}
                      THEN failedSince \cup {op} ELSE failedSince

Step(op, eff, alerts, setUser, ended, run) ==
    [op |-> op, eff |-> eff, alerts |-> alerts, setUser |-> setUser,
     ended |-> ended, run |-> run]

\* await syncUserWithBackend(liveFirebaseUser) returns; null is thrown on to
\* the catch block: setUser(null), alert, finally.
SyncDone(i, out) ==
    /\ i \in 1..Len(runs)
    /\ runs[i].pc = "sync"
    /\ LET eff == RunOutcome(runs[i], out)
       IN /\ Requested(runs[i], "sync", eff)
          /\ IF eff = "ok"
             THEN /\ runs' = [runs EXCEPT ![i].pc = "profile", ![i].syncOk = TRUE]
                  /\ lastStep' = Step("sync", eff, <<>>, FALSE, FALSE, runs[i])
                  /\ UNCHANGED <<initializing, user, isAuthProcessing>>
             ELSE /\ user' = None
                  /\ lastStep' = Step("sync", eff,
                                      <<"User Sync Error", "Authentication Error">>,
                                      FALSE, TRUE, runs[i])
                  /\ Finally(runs[i].closInit)
                  /\ runs' = RemoveAt(runs, i)
    /\ UNCHANGED <<tblVars, venueVars, opsVars, appSockVars, subscribed, subInit, lastEv>>

\* A buggy variant of the step below: the user is set while the sync is
\* still awaited.
ProfileDoneEarly(i, out) ==
    /\ i \in 1..Len(runs)
    /\ runs[i].pc = "sync"
    /\ user' = runs[i].live
    /\ lastStep' = Step("profile", out, <<>>, TRUE, FALSE, runs[i])
    /\ runs' = [runs EXCEPT ![i].pc = "fcmPerm", ![i].userSet = TRUE]
    /\ UNCHANGED <<tblVars, venueVars, opsVars, appSockVars, subscribed, subInit, lastEv, initializing,
                   isAuthProcessing, authLast, failedSince>>

\* await fetchUserProfile(liveFirebaseUser) returns the profile, or the
\* default profile after a failure (with its own alert); setUser(userToSet).
ProfileDone(i, out) ==
    /\ i \in 1..Len(runs)
    /\ runs[i].pc = "profile"
    /\ LET eff == RunOutcome(runs[i], out)
       IN /\ Requested(runs[i], "profile", eff)
          /\ lastStep' = Step("profile", eff,
                              IF eff = "ok" THEN <<>> ELSE <<"Profile Fetch Error">>,
                              TRUE, FALSE, runs[i])
    /\ user' = runs[i].live
    /\ runs' = [runs EXCEPT ![i].pc = "fcmPerm", ![i].profileDone = TRUE,
                            ![i].userSet = TRUE]
    /\ UNCHANGED <<tblVars, venueVars, opsVars, appSockVars, subscribed, subInit, lastEv, initializing,
                   isAuthProcessing>>

\* await requestUserPermissionAndGetToken() returns a token or null.
FcmPermDone(i, token) ==
    /\ i \in 1..Len(runs)
    /\ runs[i].pc = "fcmPerm"
    /\ lastStep' = Step("fcmPerm", IF token THEN "ok" ELSE "null", <<>>, FALSE,
                        ~token, runs[i])
    /\ IF token
       THEN /\ runs' = [runs EXCEPT ![i].pc = "fcmIdToken"]
            /\ UNCHANGED <<initializing, isAuthProcessing>>
       ELSE /\ Finally(runs[i].closInit)
            /\ runs' = RemoveAt(runs, i)
    /\ UNCHANGED <<tblVars, venueVars, opsVars, appSockVars, subscribed, subInit, lastEv, user, authLast,
                   failedSince>>

\* await liveFirebaseUser.getIdToken(true): a rejection lands in the catch
\* block.
FcmIdTokenDone(i, out) ==
    /\ i \in 1..Len(runs)
    /\ runs[i].pc = "fcmIdToken"
    /\ LET eff == RunOutcome(runs[i], out)
       IN IF eff = "ok"
          THEN /\ runs' = [runs EXCEPT ![i].pc = "fcmSend"]
               /\ lastStep' = Step("fcmIdToken", eff, <<>>, FALSE, FALSE, runs[i])
               /\ UNCHANGED <<initializing, isAuthProcessing, user>>
          ELSE /\ user' = None
               /\ lastStep' = Step("fcmIdToken", eff, <<"Authentication Error">>,
                                   FALSE, TRUE, runs[i])
               /\ Finally(runs[i].closInit)
               /\ runs' = RemoveAt(runs, i)
    /\ UNCHANGED <<tblVars, venueVars, opsVars, appSockVars, subscribed, subInit, lastEv, authLast,
                   failedSince>>

\* await sendFcmTokenToBackend(...) returns; the run ends.
FcmSendDone(i, out) ==
    /\ i \in 1..Len(runs)
    /\ runs[i].pc = "fcmSend"
    /\ Requested(runs[i], "fcm", out)
    /\ lastStep' = Step("fcm", out, <<>>, FALSE, TRUE, runs[i])
    /\ Finally(runs[i].closInit)
    /\ runs' = RemoveAt(runs, i)
    /\ UNCHANGED <<tblVars, venueVars, opsVars, appSockVars, subscribed, subInit, lastEv, user>>

\* ------------------------------------------- App's user-update socket
RemoveSock(socks, sock) == SelectSeq(socks, LAMBDA x : x # sock)

\* A buggy variant of the teardown below: the socket is not disconnected.
TeardownKeeps(socks, sock) ==
    [trace |-> <<"leaveVenueRoom", "refNull">>, socks |-> socks]

\* socketRef.current.emit('leaveVenueRoom', 'global');
\* socketRef.current.disconnect(); socketRef.current = null;
Teardown(socks, sock) ==
    [trace |-> <<"leaveVenueRoom", "disconnect", "refNull">>,
     socks |-> RemoveSock(socks, sock)]

NoTeardown(socks) == [trace |-> <<>>, socks |-> socks]

\* The socket effect runs because user?.firebaseAuthUser?.uid changed: the
\* cleanup the previous run returned, then the body.
AppSocketEffect ==
    /\ sockUid # user
    /\ LET byCleanup == hasCleanup /\ socketRef # NoSock
           c == IF byCleanup THEN Teardown(appSockets, socketRef)
                ELSE NoTeardown(appSockets)
           ref1 == IF byCleanup THEN NoSock ELSE socketRef
           byBody == ref1 # NoSock /\ user = None
           b == IF byBody THEN Teardown(c.socks, ref1) ELSE NoTeardown(c.socks)
           ref2 == IF byBody THEN NoSock ELSE ref1
           create == user # None /\ ref2 = NoSock
           new == [owner |-> user, registered |-> FALSE]
       IN /\ socketRef' = IF create THEN new ELSE ref2
          /\ appSockets' = IF create THEN Append(b.socks, new) ELSE b.socks
          /\ hasCleanup' = create
          /\ lastSock' = [trace |-> c.trace \o b.trace \o
                                     (IF create THEN <<"create">> ELSE <<>>),
                          prev |-> socketRef, uid |-> user]
    /\ sockUid' = user
    /\ UNCHANGED <<tblVars, venueVars, opsVars, initializing, user, isAuthProcessing, subscribed,
                   subInit, runs, lastEv, authLast, failedSince, lastStep>>

\* socketRef.current.on('connect', ...): registerForUpdates for the uid the
\* effect closed over.
AppSocketConnect ==
    /\ socketRef # NoSock
    /\ ~socketRef.registered
    /\ socketRef' = [socketRef EXCEPT !.registered = TRUE]
    /\ appSockets' = [k \in 1..Len(appSockets) |->
                         IF appSockets[k] = socketRef
                         THEN [socketRef EXCEPT !.registered = TRUE]
                         ELSE appSockets[k]]
    /\ UNCHANGED <<tblVars, venueVars, opsVars, initializing, user, isAuthProcessing, subscribed,
                   subInit, runs, lastEv, authLast, failedSince, lastStep, sockUid,
                   hasCleanup, lastSock>>

AuthStartInit ==
    /\ TblInit
    /\ ScreenInit
    /\ fbUser \in {None, "u1"}
    /\ AuthInit
    /\ VenueInit

AuthNext ==
    \/ Subscribe
    \/ Resubscribe
    \/ \E u \in {None, "u1", "u2"} : FirebaseAuthChange(u)
    \/ \E i \in 1..Len(runs), out \in Outcomes : SyncDone(i, out)
    \/ \E i \in 1..Len(runs), out \in Outcomes : ProfileDone(i, out)
    \/ \E i \in 1..Len(runs), token \in BOOLEAN : FcmPermDone(i, token)
    \/ \E i \in 1..Len(runs), out \in {"ok", "token_reject"} : FcmIdTokenDone(i, out)
    \/ \E i \in 1..Len(runs), out \in RespOutcomes : FcmSendDone(i, out)
    \/ AppSocketEffect
    \/ AppSocketConnect

SpecAuth == AuthStartInit /\ [][AuthNext]_vars

\* ------------------------------------------------------------------ C6
\* C6 as stated: a request that failed is sent again only after a new auth
\* change (or user action); the re-subscription of the auth listener repeats
\* no request.
C6_NoRepeatOnResubscribe ==
    ~(authLast.cause = "resubscribe" /\ authLast.repeat)

\* ------------------------------------------------------------------ C9
\* C9: at most one onAuthStateChanged run is suspended at an await at any
\* time, isAuthProcessing is true exactly while one is, and a listener call
\* made while isAuthProcessing is true changes no state and sends nothing.
C9_SingleRun ==
    /\ [](Len(runs) <= 1 /\ (isAuthProcessing <=> runs # <<>>))
    /\ [][(isAuthProcessing /\ lastEv' # lastEv) =>
             UNCHANGED <<user, initializing, isAuthProcessing, runs, authLast>>]_vars

\* A sign-out arrived while a run was awaiting the backend and was skipped.
C9_Witness ==
    /\ lastEv.skipped
    /\ lastEv.cause = "change"
    /\ lastEv.user = None
    /\ Len(runs) = 1
    /\ runs[1].pc = "profile"
    /\ isAuthProcessing

\* ----------------------------------------------------------------- C10
\* No run is suspended and no re-subscription is due.
Quiescent == subscribed /\ runs = <<>> /\ subInit = initializing

\* C10 as stated, the sign-out half: once the runs have finished, the user
\* of App is null when the last auth event carried null.
C10_SignedOutAfterSignOut ==
    (Quiescent /\ lastEv.user = None) => user = None

\* ----------------------------------------------------------------- C11
\* C11 as stated: when the sync or the profile fetch of a run fails, the run
\* ends, user is null and 'Authentication Error' is alerted.
C11_FailureAborts ==
    (lastStep.op \in {"sync", "profile"} /\ lastStep.eff # "ok") =>
        /\ lastStep.ended
        /\ user = None
        /\ \E k \in 1..Len(lastStep.alerts) : lastStep.alerts[k] = "Authentication Error"

\* ----------------------------------------------------------------- C12
\* C12: a run sets user to a user object only in the step that ends its
\* profile fetch, after its own sync has succeeded, and uploads the FCM token
\* only after it has set user.
C12_UserAfterSyncAndProfile ==
    /\ lastStep.setUser => (lastStep.op = "profile" /\ lastStep.run.syncOk)
    /\ \A i \in 1..Len(runs) :
          /\ runs[i].userSet => (runs[i].syncOk /\ runs[i].profileDone)
          /\ runs[i].pc \in {"fcmPerm", "fcmIdToken", "fcmSend"} => runs[i].userSet
    /\ lastStep.op = "fcm" =>
          (lastStep.run.userSet /\ lastStep.run.syncOk /\ lastStep.run.profileDone)

\* A run uploaded the FCM token after it had set user.
C12_Witness ==
    /\ lastStep.op = "fcm"
    /\ lastStep.eff = "ok"
    /\ lastStep.run.userSet
    /\ user = lastStep.run.live
    /\ authLast.op = "fcm"

\* ----------------------------------------------------------------- C13
\* C13: App has at most one socket that is not disconnected, and it is the
\* one socketRef holds; a socket is created only for a non-null uid and with
\* socketRef null; a run of the effect that finds a socket emits
\* leaveVenueRoom, disconnects it and resets socketRef before it creates
\* another; once the effect has run for the current uid, a socket exists
\* exactly when the uid is non-null, and it was created for that uid.
C13_OneUserSocket ==
    /\ Len(appSockets) <= 1
    /\ appSockets = IF socketRef = NoSock THEN <<>> ELSE <<socketRef>>
    /\ socketRef # NoSock => (socketRef.owner = sockUid /\ socketRef.owner # None)
    /\ sockUid = user => (socketRef # NoSock <=> user # None)
    /\ lastSock.prev # NoSock =>
          SubSeq(lastSock.trace, 1, 3) = <<"leaveVenueRoom", "disconnect", "refNull">>
    /\ \A k \in 1..Len(lastSock.trace) :
          lastSock.trace[k] = "create" =>
              (k = Len(lastSock.trace) /\ lastSock.uid # None)

\* The user signed out and the effect tore down the socket of u1.
C13_Witness ==
    /\ lastSock.prev # NoSock
    /\ lastSock.prev.owner = "u1"
    /\ lastSock.prev.registered
    /\ lastSock.uid = None
    /\ lastSock.trace = <<"leaveVenueRoom", "disconnect", "refNull">>
    /\ socketRef = NoSock
    /\ appSockets = <<>>

\* ------------------------------------- VenueDetailScreen: the venue socket
\* ids 0 is socketRef.current = null
venueRest == <<currentUserUid, homeUser, location, claimedWinDetails,
               winClaimModalVisible, dialog, pendingNotification, last>>

Deps == [uid |-> userAuthUid, focused |-> isFocused, tick |-> depTick]

IsOpen(sock) == sock.state \in {"connecting", "connected"}

\* a disconnected socket lives as long as a connect handler holds it
Collect(socks, hs) ==
    [i \in SockIds |->
        IF socks[i].state = "closed" /\ ~\E k \in 1..Len(hs) : hs[k].sock = i
        THEN FreeSock ELSE socks[i]]

\* the teardown with the disconnect left out
VdTeardownKeeps(socks, id) ==
    [trace |-> <<"leaveVenueRoom", "refNull">>, socks |-> socks, ref |-> 0]

\* emit('leaveVenueRoom', venueId); disconnect(); socketRef.current = null
VdTeardown(socks, id) ==
    [trace |-> <<"leaveVenueRoom", "disconnect", "refNull">>,
     socks |-> [socks EXCEPT ![id].state = "closed"],
     ref   |-> 0]

VdNoTeardown(socks, id) == [trace |-> <<>>, socks |-> socks, ref |-> id]

\* the cleanup the previous run of the effect returned
VdCleanup(socks, id) ==
    IF effDeps # NoDeps /\ id # 0 THEN VdTeardown(socks, id) ELSE VdNoTeardown(socks, id)

\* The socket effect runs because one of its dependencies changed: the
\* cleanup of the previous run, then the body.
VenueSocketEffect ==
    /\ mounted
    /\ effDeps # Deps
    /\ LET c     == VdCleanup(vSockets, vSocketRef)
           b     == IF c.ref # 0 /\ (userAuthUid = None \/ ~isFocused)
                    THEN VdTeardown(c.socks, c.ref)
                    ELSE VdNoTeardown(c.socks, c.ref)
           make  == userAuthUid # None /\ isFocused /\ b.ref = 0
           socks == Collect(b.socks, handlers)
           id    == CHOOSE i \in SockIds :
                        /\ socks[i].state = "free"
                        /\ \A j \in SockIds : socks[j].state = "free" => i <= j
       IN  /\ make => \E i \in SockIds : socks[i].state = "free"
           /\ vSockets' = IF make
                          THEN [socks EXCEPT ![id] = [FreeSock EXCEPT !.state = "connecting",
                                                                      !.owner = userAuthUid]]
                          ELSE socks
           /\ vSocketRef' = IF make THEN id ELSE b.ref
           /\ lastEff' = [trace |-> c.trace \o b.trace \o
                                       (IF make THEN <<"create">> ELSE <<>>),
                          prev  |-> vSocketRef,
                          cause |-> "effect"]
    /\ effDeps' = Deps
    /\ UNCHANGED <<tblVars, authVars, fbUser, userAuthUid, venueRest, mounted, isFocused,
                   handlers, depTick, lastEmits>>

\* The screen unmounts: the cleanup of the last run of the effect.
VenueUnmount ==
    /\ mounted
    /\ mounted' = FALSE
    /\ LET c == VdCleanup(vSockets, vSocketRef)
       IN  /\ vSockets' = Collect(c.socks, handlers)
           /\ vSocketRef' = c.ref
           /\ lastEff' = [trace |-> c.trace, prev |-> vSocketRef, cause |-> "unmount"]
    /\ effDeps' = NoDeps
    /\ UNCHANGED <<tblVars, authVars, fbUser, userAuthUid, venueRest, isFocused,
                   handlers, depTick, lastEmits>>

\* The screen is mounted again: fresh state and a fresh socketRef.
VenueMount ==
    /\ ~mounted
    /\ mounted' = TRUE
    /\ userAuthUid' = None
    /\ isFocused' = TRUE
    /\ vSocketRef' = 0
    /\ UNCHANGED <<tblVars, authVars, fbUser, venueRest, vSockets, handlers, depTick,
                   effDeps, lastEff, lastEmits>>

\* useIsFocused() changes: the screen is blurred or focused.
VenueFocusChange ==
    /\ mounted
    /\ isFocused' = ~isFocused
    /\ UNCHANGED <<tblVars, authVars, fbUser, userAuthUid, venueRest, mounted, vSocketRef,
                   vSockets, handlers, depTick, effDeps, lastEff, lastEmits>>

\* The auth listener of the screen: setUserAuthUid(user.uid) or (null).
VenueAuthChanged(u) ==
    /\ mounted
    /\ userAuthUid # u
    /\ userAuthUid' = u
    /\ UNCHANGED <<tblVars, authVars, fbUser, venueRest, mounted, isFocused, vSocketRef,
                   vSockets, handlers, depTick, effDeps, lastEff, lastEmits>>

\* venueId, syncUserToBackend or attachSocketListeners gets a new identity.
VenueDepsChange ==
    /\ mounted
    /\ depTick' = 1 - depTick
    /\ UNCHANGED <<tblVars, authVars, fbUser, userAuthUid, venueRest, mounted, isFocused,
                   vSocketRef, vSockets, handlers, effDeps, lastEff, lastEmits>>

Emit(ev, id, sock, synced, registered) ==
    [ev |-> ev, sock |-> id, open |-> IsOpen(sock), everConnected |-> sock.everConnected,
     synced |-> synced, registered |-> registered]

\* The 'reconnect' handler: joinVenueRoom, then registerForUpdates.
ReconnectEmits(id, sock) ==
    << Emit("joinVenueRoom", id, sock, FALSE, FALSE),
       Emit("registerForUpdates", id, sock, FALSE, FALSE) >>

\* The connect handler after its await: registerForUpdates, then joinVenueRoom.
ConnectEmits(id, sock, synced) ==
    << Emit("registerForUpdates", id, sock, synced, sock.registered),
       Emit("joinVenueRoom", id, sock, synced, TRUE) >>

\* A connection of socket id is established. The 'connect' handler starts and
\* awaits syncUserToBackend; on a re-establishment the client library may
\* also emit 'reconnect' on the socket (reconnectFires).
VenueSocketConnect(id, reconnectFires) ==
    /\ vSockets[id].state = "connecting"
    /\ reconnectFires => vSockets[id].everConnected
    /\ Len(handlers) < MaxAwaiting
    /\ LET sock == [vSockets[id] EXCEPT !.state = "connected"]
       IN  /\ vSockets' = [vSockets EXCEPT ![id] =
                               [sock EXCEPT !.everConnected = TRUE, !.synced = FALSE,
                                            !.registered = reconnectFires]]
           /\ lastEmits' = IF reconnectFires THEN ReconnectEmits(id, sock) ELSE <<>>
    /\ handlers' = Append([k \in 1..Len(handlers) |->
                               IF handlers[k].sock = id
                               THEN [handlers[k] EXCEPT !.stale = TRUE]
                               ELSE handlers[k]],
                          [sock |-> id, stale |-> FALSE])
    /\ UNCHANGED <<tblVars, authVars, fbUser, userAuthUid, venueRest, mounted, isFocused,
                   vSocketRef, depTick, effDeps, lastEff>>

\* The connection of socket id is lost; the client will reconnect.
VenueSocketDrop(id) ==
    /\ vSockets[id].state = "connected"
    /\ vSockets' = [vSockets EXCEPT ![id].state = "connecting"]
    /\ UNCHANGED <<tblVars, authVars, fbUser, userAuthUid, venueRest, mounted, isFocused,
                   vSocketRef, handlers, depTick, effDeps, lastEff, lastEmits>>

\* syncUserToBackend of the k-th waiting connect handler returns (it never
\* throws): the handler emits on the socket it was attached to.
VenueSyncReturned(k) ==
    /\ k \in 1..Len(handlers)
    /\ LET h      == handlers[k]
           sock   == vSockets[h.sock]
           synced == sock.synced \/ ~h.stale
       IN  /\ lastEmits' = ConnectEmits(h.sock, sock, synced)
           /\ handlers' = RemoveAt(handlers, k)
           /\ vSockets' = Collect([vSockets EXCEPT ![h.sock].synced = synced,
                                                   ![h.sock].registered = TRUE],
                                  RemoveAt(handlers, k))
    /\ UNCHANGED <<tblVars, authVars, fbUser, userAuthUid, venueRest, mounted, isFocused,
                   vSocketRef, depTick, effDeps, lastEff>>

VenueNext ==
    \/ VenueSocketEffect
    \/ VenueUnmount
    \/ VenueMount
    \/ VenueFocusChange
    \/ \E u \in {None, "u1"} : VenueAuthChanged(u)
    \/ VenueDepsChange
    \/ \E id \in SockIds, reconnectFires \in BOOLEAN : VenueSocketConnect(id, reconnectFires)
    \/ \E id \in SockIds : VenueSocketDrop(id)
    \/ \E k \in 1..MaxAwaiting : VenueSyncReturned(k)

SpecVenue == TablesInit /\ [][VenueNext]_vars

\* ----------------------------------------------------------------- C14
OpenIds == {i \in SockIds : IsOpen(vSockets[i])}

\* C14: the screen has at most one venue socket that is not disconnected, and
\* it is the one socketRef holds; once the effect has run for the current
\* dependencies, it exists exactly when userAuthUid is non-null and the screen
\* is focused; a cleanup that finds a socket emits leaveVenueRoom, then
\* disconnects it, then resets socketRef to null, before another is created.
C14_OneVenueSocket ==
    /\ Cardinality(OpenIds) <= 1
    /\ OpenIds = IF vSocketRef = 0 THEN {} ELSE {vSocketRef}
    /\ (mounted /\ effDeps = Deps) => (vSocketRef # 0 <=> (userAuthUid # None /\ isFocused))
    /\ ~mounted => vSocketRef = 0
    /\ vSocketRef # 0 =>
          /\ vSockets[vSocketRef].owner = effDeps.uid
          /\ effDeps.uid \notin {None, "unset"}
          /\ effDeps.focused
    /\ lastEff.prev # 0 =>
          SubSeq(lastEff.trace, 1, 3) = <<"leaveVenueRoom", "disconnect", "refNull">>
    /\ \A k \in 1..Len(lastEff.trace) :
          lastEff.trace[k] = "create" => k = Len(lastEff.trace)

\* The screen was blurred with a connected socket and the effect tore it down.
C14_Witness ==
    /\ lastEff.cause = "effect"
    /\ lastEff.prev # 0
    /\ lastEff.trace = <<"leaveVenueRoom", "disconnect", "refNull">>
    /\ userAuthUid = "u1"
    /\ ~isFocused
    /\ effDeps = Deps
    /\ vSocketRef = 0
    /\ OpenIds = {}

\* ----------------------------------------------------------------- C15
\* C15 as stated: registerForUpdates and joinVenueRoom are never emitted on a
\* venue socket that the client has left and disconnected.
C15_NoEmitAfterTeardown ==
    \A k \in 1..Len(lastEmits) :
        lastEmits[k].ev \in {"registerForUpdates", "joinVenueRoom"} => lastEmits[k].open

\* ----------------------------------------------------------------- C16
\* C16 as stated: joinVenueRoom is emitted on a connection only after a user
\* sync started for that connection has returned and after registerForUpdates
\* was emitted on that connection.
C16_JoinAfterSyncAndRegister ==
    \A k \in 1..Len(lastEmits) :
        lastEmits[k].ev = "joinVenueRoom" =>
            (lastEmits[k].synced /\ lastEmits[k].registered)
====
